---- MODULE Spec2Model ----
(***************************************************************************)
(* Audio/text timeline synchronisation of the audiobook maker              *)
(* (src/app_genai_one_v4_fix.py): the two re-indexing transforms, the      *)
(* audio splice functions, the two edit handlers of main() and the         *)
(* sentence merger of get_transcription_with_timestamps.                   *)
(*                                                                         *)
(* Times are integers in milliseconds (the code's float seconds, exact on  *)
(* the grid the inputs are drawn from; int(sec * 1000) is then the         *)
(* identity).  A text is a sequence of one-character strings.  A timeline  *)
(* is a Python list of dict objects: the dicts live in heap (object id ->  *)
(* value) and a list is the sequence of the ids it holds, so that the      *)
(* in-place assignments item['end'] = ... of the code are visible through  *)
(* every list that holds the object.                                       *)
(***************************************************************************)
EXTENDS Integers, Sequences, FiniteSets, TLC

VARIABLES
    audio,          \* the chapter's audio file on disk: [kind, dur]
    runs,           \* number of edit handler runs so far in the session
    writes,         \* number of times the edit handlers wrote the audio file
    has_timeline,   \* verify_key in st.session_state
    heap,           \* segment objects: id -> [start, end, text]
    timeline,       \* st.session_state[verify_key]: the list of segment ids
    op,             \* the last call or handler run, with its outcome
    call,           \* what that call was given and what it returned
    raw_data,       \* the transcription response parsed by json.loads
    real_duration,  \* the measured duration of the transcribed audio
    merged_data,    \* the list get_transcription_with_timestamps returns
    pad,            \* a call of add_silence_padding: its arguments and its result
    splice,         \* a call of patch_audio_segment: its arguments and its result
    batch,          \* a batch generation run: the loop's position and its effects
    folder,         \* a chapter's script and audio folders over batch runs
    chunker         \* a call of process_text_for_playground: its arguments and its result

vars == <<audio, runs, writes, has_timeline, heap, timeline, op, call,
          raw_data, real_duration, merged_data, pad, splice, batch,
          folder, chunker>>

----------------------------------------------------------------------------
(* Bounds of the model *)

GridStep == 25      \* distance in ms between two times the inputs are drawn from
MaxK == 5           \* times of a directly transformed timeline: 0 .. MaxK * GridStep
MaxSessionK == 4    \* times of a session's audio and timeline: 0 .. MaxSessionK * GridStep
MaxFragK == 2       \* fragment times lie in 0 .. MaxFragK * GridStep
MaxRuns == 1        \* edit handler runs in one session
MaxSec == 15        \* whole-second times lie in 0 .. MaxSec seconds
MaxOver == 2        \* payloads hold up to MIN_BYTES + MaxOver bytes, or 4 * MaxOver more frames bytes
MaxBatch == 3       \* script files of one batch generation run
MaxClipK == 5       \* a replacement clip lasts up to MaxClipK * GridStep
MaxScripts == 3     \* script files of a chapter
MaxResume == 3      \* batch runs started on one chapter folder
MaxTextLen == 6     \* characters of a text given to process_text_for_playground
MinChars == 3       \* the smallest max_chars
MaxChars == 5       \* the largest max_chars

Grid(k) == {GridStep * i : i \in 0..k}

----------------------------------------------------------------------------
(* Program constants *)

EPS_DEL == 50         \* del_end - 0.05
EPS_PATCH == 100      \* target_end - 0.1
CROSSFADE == 20       \* part_front.append(part_back, crossfade=20)
PATCH_SILENCE == 100  \* add_silence_padding(raw_audio, duration_sec=0.1)
SecondMs == 1000      \* int(start_sec * 1000)

Max(a, b) == IF a >= b THEN a ELSE b
Min(a, b) == IF a <= b THEN a ELSE b

Range(s) == {s[i] : i \in DOMAIN s}

Seg(s, e, t) == [start |-> s, end |-> e, text |-> t]

\* The values of the segments a list holds, read through a heap.
Deref(h, list) == [i \in DOMAIN list |-> h[list[i]]]

----------------------------------------------------------------------------
(* adjust_timeline_for_deletion *)

\* One pass of the loop body on the object item: the value the object holds
\* afterwards (item['start'] and item['end'] are assigned in place).
DeletionItem_NoFloor(item, del_start, del_end) ==
    LET gap == del_end - del_start IN
    IF item.end <= del_start THEN item
    ELSE IF item.start >= del_end - EPS_DEL
         THEN [item EXCEPT !.start = Max(0, item.start - gap),
                           !.end = Max(0, item.end - gap)]
         ELSE [item EXCEPT !.end = item.end - gap]

DeletionItem_NoTolerance(item, del_start, del_end) ==
    LET gap == del_end - del_start IN
    IF item.end <= del_start THEN item
    ELSE IF item.start >= del_end
         THEN [item EXCEPT !.start = Max(0, item.start - gap),
                           !.end = Max(0, item.end - gap)]
         ELSE [item EXCEPT !.end = Max(item.start, item.end - gap)]

DeletionItem(item, del_start, del_end) ==
    LET gap == del_end - del_start IN
    IF item.end <= del_start THEN item
    ELSE IF item.start >= del_end - EPS_DEL
         THEN [item EXCEPT !.start = Max(0, item.start - gap),
                           !.end = Max(0, item.end - gap)]
         ELSE [item EXCEPT !.end = Max(item.start, item.end - gap)]

\* The loop, were it to leave out the segments that lie inside the range.
RECURSIVE DeletionLoop_DropInside(_, _, _, _, _, _)
DeletionLoop_DropInside(h, list, i, new_timeline, del_start, del_end) ==
    IF i > Len(list) THEN [heap |-> h, ret |-> new_timeline]
    ELSE IF del_start <= h[list[i]].start /\ h[list[i]].end <= del_end
         THEN DeletionLoop_DropInside(h, list, i + 1, new_timeline, del_start, del_end)
         ELSE DeletionLoop_DropInside(
                  [h EXCEPT ![list[i]] = DeletionItem(h[list[i]], del_start, del_end)],
                  list, i + 1, Append(new_timeline, list[i]), del_start, del_end)

\* for item in timeline: ...; new_timeline.append(item)
RECURSIVE DeletionLoop(_, _, _, _, _, _)
DeletionLoop(h, list, i, new_timeline, del_start, del_end) ==
    IF i > Len(list) THEN [heap |-> h, ret |-> new_timeline]
    ELSE DeletionLoop([h EXCEPT ![list[i]] = DeletionItem(h[list[i]], del_start, del_end)],
                      list, i + 1, Append(new_timeline, list[i]), del_start, del_end)

\* The heap after the call and the list it returns.
adjust_timeline_for_deletion(h, list, del_start, del_end) ==
    DeletionLoop(h, list, 1, <<>>, del_start, del_end)

----------------------------------------------------------------------------
(* adjust_timeline_for_patch *)

PatchItem_ShiftOnly(item, target_start, target_end, new_duration) ==
    LET old_duration == target_end - target_start
        diff == new_duration - old_duration
    IN  IF item.start >= target_end - EPS_PATCH
        THEN [item EXCEPT !.start = item.start + diff, !.end = item.end + diff]
        ELSE item

PatchItem_NoTolerance(item, target_start, target_end, new_duration) ==
    LET old_duration == target_end - target_start
        diff == new_duration - old_duration
    IN  IF item.start >= target_end
        THEN [item EXCEPT !.start = item.start + diff, !.end = item.end + diff]
        ELSE IF item.end > target_start /\ item.start < target_end
             THEN [item EXCEPT !.end = item.end + diff]
             ELSE item

PatchItem(item, target_start, target_end, new_duration) ==
    LET old_duration == target_end - target_start
        diff == new_duration - old_duration
    IN  IF item.start >= target_end - EPS_PATCH
        THEN [item EXCEPT !.start = item.start + diff, !.end = item.end + diff]
        ELSE IF item.end > target_start /\ item.start < target_end
             THEN [item EXCEPT !.end = item.end + diff]
             ELSE item

RECURSIVE PatchLoop(_, _, _, _, _, _)
PatchLoop(h, list, i, target_start, target_end, new_duration) ==
    IF i > Len(list) THEN [heap |-> h, ret |-> list]
    ELSE PatchLoop([h EXCEPT ![list[i]] =
                        PatchItem(h[list[i]], target_start, target_end, new_duration)],
                   list, i + 1, target_start, target_end, new_duration)

\* The heap after the call and the list it returns (the list it was given).
adjust_timeline_for_patch(h, list, target_start, target_end, new_duration) ==
    PatchLoop(h, list, 1, target_start, target_end, new_duration)

----------------------------------------------------------------------------
(* The audio file and the splice functions.  An audio value is             *)
(* [kind, dur]: "wav" is a readable RIFF container of dur ms, "corrupt" a  *)
(* file AudioSegment.from_wav cannot load, "none" no bytes at all.         *)

Wav(d) == [kind |-> "wav", dur |-> d]
NoAudio == [kind |-> "none", dur |-> 0]
Corrupt == [kind |-> "corrupt", dur |-> 0]

\* Bytes that are no container: fewer than 100 of them, or 100 and more
\* without the RIFF signature in front.
Tiny == [kind |-> "tiny", dur |-> 0]
Headerless == [kind |-> "raw", dur |-> 0]

\* A splice function returns bytes or None.
Failed == [ok |-> FALSE, audio |-> NoAudio]
Returned(a) == [ok |-> TRUE, audio |-> a]

\* if start_ms >= end_ms: return None
InvalidRange_Strict(start_ms, end_ms) == start_ms > end_ms

InvalidRange(start_ms, end_ms) == start_ms >= end_ms

\* part_front.append(part_back, crossfade=20): pydub raises ValueError when
\* the crossfade is longer than either part, and otherwise overlaps the two
\* parts by the crossfade.
delete_audio_range(original, start_sec, end_sec) ==
    IF original.kind # "wav" THEN Failed
    ELSE LET start_ms == Max(0, start_sec)
             end_ms == Min(end_sec, original.dur)
             part_front == start_ms
             part_back == original.dur - end_ms
         IN  IF InvalidRange(start_ms, end_ms) THEN Failed
             ELSE IF CROSSFADE > part_front \/ CROSSFADE > part_back THEN Failed
             ELSE Returned(Wav(part_front + part_back - CROSSFADE))

FADE == 50            \* fade_duration = 50

\* len(seg.fade_in(duration)): pydub fades from position 0 to position
\* duration and copies the rest; frames past the end of seg are empty, so
\* the length is that of seg.
fade_in(len, duration) == len

\* len(seg.fade_out(duration)): pydub starts the fade at len(seg) - duration
\* and emits seg[:start], then one frame per position from start to the
\* end, then nothing.  When seg is shorter than the fade, start is negative:
\* seg[:start] and the frames at negative positions are read from the end
\* of seg (Python's negative indices), and the result is longer than seg.
fade_out(len, duration) ==
    IF len >= duration THEN len
    ELSE LET before_fade == IF 2 * len >= duration THEN 2 * len - duration
                            ELSE Max(0, 3 * len - duration)
             wrapped == Min(duration - len, len)
         IN  before_fade + wrapped + len

\* if len(replacement) < fade_duration * 2
ShortClip(replacement) == replacement < FADE * 2

\* The three parts cut (part_a, replacement, part_c), whether the fade
\* branch ran, and the lengths of the three parts as concatenated.
PatchParts(original, new, start_sec, end_sec) ==
    LET start_ms == Max(0, start_sec)
        end_ms == Min(end_sec, original.dur)
        part_a == Min(start_ms, original.dur)
        part_c == original.dur - end_ms
        faded == ~ShortClip(new.dur)
    IN  [part_a |-> part_a, replacement |-> new.dur, part_c |-> part_c,
         faded |-> faded,
         out_a |-> IF faded THEN fade_out(part_a, FADE) ELSE part_a,
         out_r |-> IF faded THEN fade_out(fade_in(new.dur, FADE), FADE) ELSE new.dur,
         out_c |-> IF faded THEN fade_in(part_c, FADE) ELSE part_c]

\* if not ..._wav_bytes or len(..._wav_bytes) < 100 / if not
\* ..._wav_bytes.startswith(b'RIFF'): return None
Rejected(buf) == buf.kind \in {"none", "tiny", "raw"}

\* A buffer passes the tests above and AudioSegment.from_wav loads it.
Usable_Always(buf) == TRUE

Usable(buf) == ~Rejected(buf) /\ buf.kind = "wav"

\* The replacement is spliced in between original[:start_ms] and
\* original[end_ms:].
patch_audio_segment(original, new, start_sec, end_sec) ==
    IF ~Usable(original) \/ ~Usable(new) THEN Failed
    ELSE LET p == PatchParts(original, new, start_sec, end_sec)
         IN  Returned(Wav(p.out_a + p.out_r + p.out_c))

\* What generate_speech returns: None, a payload under 100 bytes ("tiny"),
\* or audio of some duration.  add_silence_padding gives None for the first
\* two and otherwise a container with the silence in front.
add_silence_padding(raw_audio, duration) ==
    IF raw_audio.kind # "wav" THEN Failed
    ELSE Returned(Wav(duration + raw_audio.dur))

----------------------------------------------------------------------------
(* add_silence_padding on the bytes of a payload.  A byte string is a      *)
(* sequence of runs [b, n] (n > 0 times the byte b, no two neighbouring    *)
(* runs of the same byte); a payload is None or the bytes head \o frames,  *)
(* where head is empty or the bytes up to the sample data of a file that   *)
(* starts with b'RIFF', and parse is what wave.open makes of that head.    *)

MIN_BYTES == 100      \* len(audio_bytes) < 100
CHANNELS == 1         \* CHANNELS = 1
SAMPWIDTH == 2        \* SAMPWIDTH = 2
FRAMERATE == 24000    \* FRAMERATE = 24000
DEFAULT_PAD == 500    \* duration_sec=0.5
RIFF == 82            \* b'RIFF': the byte the head of a RIFF file is made of

Run(b, n) == [b |-> b, n |-> n]

\* b'\x00' * n
Zeros(n) == IF n <= 0 THEN <<>> ELSE <<Run(0, n)>>

\* x + y
Cat(x, y) ==
    IF x = <<>> THEN y
    ELSE IF y = <<>> THEN x
    ELSE IF x[Len(x)].b = y[1].b
         THEN SubSeq(x, 1, Len(x) - 1) \o <<Run(y[1].b, x[Len(x)].n + y[1].n)>> \o Tail(y)
         ELSE x \o y

\* len(x)
RECURSIVE ByteLen(_)
ByteLen(x) == IF x = <<>> THEN 0 ELSE Head(x).n + ByteLen(Tail(x))

Profile(c, w, r) == [channels |-> c, sampwidth |-> w, framerate |-> r]

NoBytes == [kind |-> "none", head |-> <<>>, frames |-> <<>>, parse |-> "none",
            profile |-> Profile(CHANNELS, SAMPWIDTH, FRAMERATE)]

AllBytes(audio_bytes) == Cat(audio_bytes.head, audio_bytes.frames)

\* if not audio_bytes or len(audio_bytes) < 100
TooSmall_EmptyOnly(audio_bytes) ==
    audio_bytes.kind = "none" \/ ByteLen(AllBytes(audio_bytes)) = 0

TooSmall(audio_bytes) ==
    audio_bytes.kind = "none" \/ ByteLen(AllBytes(audio_bytes)) < MIN_BYTES

StartsWithRIFF(audio_bytes) ==
    audio_bytes.head # <<>> /\ audio_bytes.head[1].b = RIFF

\* int(FRAMERATE * duration_sec)
SilentFrames_Default(framerate, duration_sec) == (FRAMERATE * duration_sec) \div SecondMs

SilentFrames(framerate, duration_sec) == (framerate * duration_sec) \div SecondMs

PadNone == [ok |-> FALSE]

Container(profile, data) == [ok |-> TRUE, profile |-> profile, data |-> data]

\* wave.open raises wave.Error, which the inner try catches, or another
\* exception (EOFError, struct.error), which only the outer try catches.
add_silence_padding_bytes(audio_bytes, duration_sec) ==
    IF TooSmall(audio_bytes) THEN PadNone
    ELSE IF StartsWithRIFF(audio_bytes) /\ audio_bytes.parse = "EOFError" THEN PadNone
    ELSE LET parsed == StartsWithRIFF(audio_bytes) /\ audio_bytes.parse = "ok"
             profile == IF parsed THEN audio_bytes.profile
                        ELSE Profile(CHANNELS, SAMPWIDTH, FRAMERATE)
             raw_data_ == IF parsed THEN audio_bytes.frames ELSE AllBytes(audio_bytes)
             num_silent_frames == SilentFrames(profile.framerate, duration_sec)
             silent_data == Zeros(num_silent_frames * profile.channels * profile.sampwidth)
             final_data == Cat(silent_data, raw_data_)
         IN  Container(profile, final_data)

\* if new_audio_bytes: / if patched:
Truthy_Always(r) == TRUE

Truthy(r) == r.ok

----------------------------------------------------------------------------
(* What the last call was given: the arguments a, b, c, the audio file,    *)
(* the write count and the values of the timeline's segments on entry,     *)
(* the list passed and the list returned, and whether a timeline           *)
(* transform ran.                                                          *)

NoCall ==
    [a |-> 0, b |-> 0, c |-> 0, audio |-> NoAudio, writes |-> 0, old |-> <<>>,
     arg |-> <<>>, ret |-> <<>>, transformed |-> FALSE]

Entry(a, b, c) ==
    [a |-> a, b |-> b, c |-> c, audio |-> audio, writes |-> writes,
     old |-> Deref(heap, timeline), arg |-> timeline, ret |-> <<>>,
     transformed |-> FALSE]

mergeVars == <<raw_data, real_duration, merged_data>>

otherVars == <<pad, splice, batch, folder, chunker>>

----------------------------------------------------------------------------
(* main(): the deletion handler *)

DeleteHandler(del_start, del_end) ==
    /\ runs < MaxRuns
    /\ runs' = runs + 1
    /\ UNCHANGED <<has_timeline, mergeVars, otherVars>>
    /\ IF audio.kind = "none"
       THEN /\ op' = "delete_nofile"
            /\ call' = Entry(del_start, del_end, 0)
            /\ UNCHANGED <<audio, writes, heap, timeline>>
       ELSE LET new_audio_bytes == delete_audio_range(audio, del_start, del_end) IN
            IF Truthy(new_audio_bytes)
            THEN /\ audio' = new_audio_bytes.audio
                 /\ writes' = writes + 1
                 /\ op' = "delete_ok"
                 /\ IF has_timeline
                    THEN LET t == adjust_timeline_for_deletion(heap, timeline,
                                                               del_start, del_end)
                         IN  /\ heap' = t.heap
                             /\ timeline' = t.ret
                             /\ call' = [Entry(del_start, del_end, 0) EXCEPT
                                            !.ret = t.ret, !.transformed = TRUE]
                    ELSE /\ call' = Entry(del_start, del_end, 0)
                         /\ UNCHANGED <<heap, timeline>>
            ELSE /\ op' = "delete_failed"
                 /\ call' = Entry(del_start, del_end, 0)
                 /\ UNCHANGED <<audio, writes, heap, timeline>>

----------------------------------------------------------------------------
(* main(): the patch handler *)

PatchHandler(patch_text_empty, raw_audio, start_time, end_time) ==
    /\ runs < MaxRuns
    /\ runs' = runs + 1
    /\ UNCHANGED <<has_timeline, mergeVars, otherVars>>
    /\ IF patch_text_empty
       THEN /\ op' = "patch_notext"
            /\ call' = Entry(start_time, end_time, 0)
            /\ UNCHANGED <<audio, writes, heap, timeline>>
       ELSE LET new_part == add_silence_padding(raw_audio, PATCH_SILENCE) IN
            IF ~(Truthy(new_part) /\ audio.kind # "none")
            THEN /\ op' = "patch_nopart"
                 /\ call' = Entry(start_time, end_time, 0)
                 /\ UNCHANGED <<audio, writes, heap, timeline>>
            ELSE LET new_duration == new_part.audio.dur
                     patched == patch_audio_segment(audio, new_part.audio,
                                                    start_time, end_time)
                 IN  IF Truthy(patched)
                     THEN /\ audio' = patched.audio
                          /\ writes' = writes + 1
                          /\ op' = "patch_ok"
                          /\ IF has_timeline
                             THEN LET t == adjust_timeline_for_patch(heap, timeline,
                                              start_time, end_time, new_duration)
                                  IN  /\ heap' = t.heap
                                      /\ timeline' = t.ret
                                      /\ call' = [Entry(start_time, end_time, new_duration)
                                                    EXCEPT !.ret = t.ret,
                                                           !.transformed = TRUE]
                             ELSE /\ call' = Entry(start_time, end_time, new_duration)
                                  /\ UNCHANGED <<heap, timeline>>
                     ELSE /\ op' = "patch_failed"
                          /\ call' = Entry(start_time, end_time, new_duration)
                          /\ UNCHANGED <<audio, writes, heap, timeline>>

----------------------------------------------------------------------------
(* get_transcription_with_timestamps: the sentence merger *)

Terminators == {".", "?", "!"}

\* str.strip()
RECURSIVE LStrip(_)
LStrip(t) == IF t # <<>> /\ Head(t) = " " THEN LStrip(Tail(t)) ELSE t

RECURSIVE RStrip(_)
RStrip(t) == IF t # <<>> /\ t[Len(t)] = " " THEN RStrip(SubSeq(t, 1, Len(t) - 1)) ELSE t

Strip(t) == RStrip(LStrip(t))

\* The accumulator after an append: buffer['text'] = ... ; buffer['end'] = ...
Extend_KeepEnd(buffer, item) ==
    [buffer EXCEPT !.text = Strip(buffer.text) \o <<" ">> \o Strip(item.text)]

Extend_DropText(buffer, item) ==
    [buffer EXCEPT !.text = Strip(item.text), !.end = item.end]

Extend(buffer, item) ==
    [buffer EXCEPT !.text = Strip(buffer.text) \o <<" ">> \o Strip(item.text),
                   !.end = item.end]

\* One pass of the loop body.  st.buffer is <<>> for None and <<b>> for the
\* accumulator b; st.merged is merged_data.
MergeStep(st, item, duration) ==
    IF item.start >= item.end THEN st
    ELSE IF item.start >= duration THEN st
    ELSE LET clamped == IF item.end > duration THEN [item EXCEPT !.end = duration]
                        ELSE item
             buffer == IF st.buffer = <<>> THEN clamped
                       ELSE Extend(st.buffer[1], clamped)
             current_text == Strip(buffer.text)
         IN  IF current_text # <<>> /\ current_text[Len(current_text)] \in Terminators
             THEN [buffer |-> <<>>, merged |-> Append(st.merged, buffer)]
             ELSE [buffer |-> <<buffer>>, merged |-> st.merged]

\* for item in raw_data: ...; if buffer is not None: merged_data.append(buffer)
RECURSIVE MergeLoop_DropTail(_, _, _, _)
MergeLoop_DropTail(st, raw, i, duration) ==
    IF i > Len(raw) THEN st.merged
    ELSE MergeLoop_DropTail(MergeStep(st, raw[i], duration), raw, i + 1, duration)

RECURSIVE MergeLoop(_, _, _, _)
MergeLoop(st, raw, i, duration) ==
    IF i > Len(raw)
    THEN IF st.buffer # <<>> THEN Append(st.merged, st.buffer[1]) ELSE st.merged
    ELSE MergeLoop(MergeStep(st, raw[i], duration), raw, i + 1, duration)

\* merged_data as returned for the parsed response raw and the measured duration.
SentenceMerger(raw, duration) ==
    MergeLoop([buffer |-> <<>>, merged |-> <<>>], raw, 1, duration)

----------------------------------------------------------------------------
(* The inputs the specifications draw *)

\* The texts of the segments of a drawn timeline, by position.
SegTexts == << <<"A">>, <<"B">> >>

\* Every timeline of up to Len(SegTexts) segments with times on the grid, in
\* any order, inverted and empty segments included.
Timelines(k) ==
    UNION {[1..n -> Grid(k) \X Grid(k)] : n \in 0..Len(SegTexts)}

Values(tl) == [i \in DOMAIN tl |-> Seg(tl[i][1], tl[i][2], SegTexts[i])]

\* The Timeline invariant of a list of segment values for audio of d ms.
Ordered(v) == \A i \in 1..(Len(v) - 1) : v[i].end <= v[i + 1].start

WellFormed(v, d) ==
    /\ \A i \in DOMAIN v : 0 <= v[i].start /\ v[i].start < v[i].end
    /\ Ordered(v)
    /\ Len(v) > 0 => v[Len(v)].end <= d

Ids(v) == [i \in DOMAIN v |-> i]

\* Fragment texts: plain, terminated, and padded with whitespace.
FragTexts == { <<"a">>, <<"b", ".">>, <<" ", "c", "?", " ">> }

Fragments == {Seg(s, e, t) : s \in Grid(MaxFragK), e \in Grid(MaxFragK), t \in FragTexts}

FragCounts == 0..3

RawInputs == UNION {[1..n -> Fragments] : n \in FragCounts}

MergeIdle == raw_data = <<>> /\ real_duration = 0 /\ merged_data = <<>>

\* No call of add_silence_padding or patch_audio_segment on its own and no
\* batch run.
NoRecord == [called |-> FALSE]

RestIdle == folder = NoRecord /\ chunker = NoRecord

OtherIdle == pad = NoRecord /\ splice = NoRecord /\ batch = NoRecord /\ RestIdle

----------------------------------------------------------------------------
(* Spec: an editing session on one chapter.  The session starts with the   *)
(* audio file as the generator left it and, when the analysis has run, a   *)
(* timeline that satisfies the Timeline invariant for that audio.          *)

Init ==
    /\ audio \in {NoAudio, Corrupt} \cup {Wav(d) : d \in Grid(MaxSessionK) \ {0}}
    /\ runs = 0
    /\ writes = 0
    /\ has_timeline \in BOOLEAN
    /\ heap \in {Values(tl) : tl \in Timelines(MaxSessionK)}
    /\ IF has_timeline
       THEN /\ audio.kind # "none"
            /\ WellFormed(heap, IF audio.kind = "wav" THEN audio.dur ELSE MaxSessionK * GridStep)
       ELSE heap = <<>>
    /\ timeline = Ids(heap)
    /\ op = "none"
    /\ call = NoCall
    /\ MergeIdle
    /\ OtherIdle

\* generate_speech: nothing, a payload too small to be audio, or speech.
Generated == {NoAudio, [kind |-> "tiny", dur |-> 0], Wav(GridStep)}

Next ==
    \/ \E del_start \in Grid(MaxSessionK + 1), del_end \in Grid(MaxSessionK + 1) :
          DeleteHandler(del_start, del_end)
    \/ \E patch_text_empty \in BOOLEAN, raw_audio \in Generated,
          start_time \in {-GridStep} \cup Grid(MaxSessionK), end_time \in Grid(MaxSessionK + 1) :
          PatchHandler(patch_text_empty, raw_audio, start_time, end_time)

Spec == Init /\ [][Next]_vars

----------------------------------------------------------------------------
(* SpecTransform: the two transforms called directly on a list of segment  *)
(* objects: any sequence of deletions, or one patch.                       *)

InitTransform ==
    /\ audio = NoAudio
    /\ runs = 0
    /\ writes = 0
    /\ has_timeline = TRUE
    /\ heap \in {Values(tl) : tl \in Timelines(MaxK)}
    /\ timeline = Ids(heap)
    /\ op = "none"
    /\ call = NoCall
    /\ MergeIdle
    /\ OtherIdle

CallDeletion(del_start, del_end) ==
    /\ op \in {"none", "adjust_deletion"}
    /\ LET t == adjust_timeline_for_deletion(heap, timeline, del_start, del_end) IN
       /\ heap' = t.heap
       /\ timeline' = t.ret
       /\ call' = [Entry(del_start, del_end, 0) EXCEPT !.ret = t.ret, !.transformed = TRUE]
    /\ op' = "adjust_deletion"
    /\ UNCHANGED <<audio, runs, writes, has_timeline, mergeVars, otherVars>>

CallPatch(target_start, target_end, new_duration) ==
    /\ op = "none"
    /\ LET t == adjust_timeline_for_patch(heap, timeline, target_start, target_end,
                                          new_duration) IN
       /\ heap' = t.heap
       /\ timeline' = t.ret
       /\ call' = [Entry(target_start, target_end, new_duration) EXCEPT
                      !.ret = t.ret, !.transformed = TRUE]
    /\ op' = "adjust_patch"
    /\ UNCHANGED <<audio, runs, writes, has_timeline, mergeVars, otherVars>>

NextTransform ==
    \/ \E del_start \in Grid(MaxK + 1), del_end \in Grid(MaxK + 1) :
          del_start <= del_end /\ CallDeletion(del_start, del_end)
    \/ \E target_start \in Grid(MaxK), target_end \in Grid(MaxK + 1),
          new_duration \in {GridStep, PATCH_SILENCE + GridStep} :
          target_start < target_end /\ CallPatch(target_start, target_end, new_duration)

SpecTransform == InitTransform /\ [][NextTransform]_vars

----------------------------------------------------------------------------
(* SpecMerge: the sentence merger on a parsed transcription response.      *)

InitMerge ==
    /\ audio = NoAudio
    /\ runs = 0
    /\ writes = 0
    /\ has_timeline = FALSE
    /\ heap = <<>>
    /\ timeline = <<>>
    /\ op = "none"
    /\ call = NoCall
    /\ raw_data \in RawInputs
    /\ real_duration \in Grid(MaxFragK + 1) \ {0}
    /\ merged_data = <<>>
    /\ OtherIdle

Transcribe ==
    /\ op = "none"
    /\ merged_data' = SentenceMerger(raw_data, real_duration)
    /\ op' = "merged"
    /\ UNCHANGED <<audio, runs, writes, has_timeline, heap, timeline, call,
                   raw_data, real_duration, otherVars>>

NextMerge == Transcribe

SpecMerge == InitMerge /\ [][NextMerge]_vars

----------------------------------------------------------------------------
(* SpecEdits: sessions and direct calls side by side.  A direct call has   *)
(* no audio file and a timeline; a session without a file has no timeline. *)

DirectCalls == audio.kind = "none" /\ has_timeline

InitEdits == Init \/ InitTransform

NextEdits ==
    \/ ~DirectCalls /\ Next
    \/ DirectCalls /\ NextTransform

SpecEdits == InitEdits /\ [][NextEdits]_vars

----------------------------------------------------------------------------
(* SpecMapping: the transforms called directly, on the timelines of        *)
(* SpecTransform and, once, on timelines of three sentences that follow    *)
(* one another at whole seconds.                                           *)

SecGrid == {SecondMs * i : i \in 0..MaxSec}

SecondsTimelines ==
    {<<Seg(0, x, <<"A">>), Seg(x, y, <<"B">>), Seg(y, z, <<"C">>)>> :
        <<x, y, z>> \in {t \in SecGrid \X SecGrid \X SecGrid :
                            0 < t[1] /\ t[1] < t[2] /\ t[2] < t[3]}}

\* The timeline and the edits of the scenarios of the specification.
ScenarioTimeline ==
    <<Seg(0, 5 * SecondMs, <<"A">>), Seg(5 * SecondMs, 10 * SecondMs, <<"B">>),
      Seg(10 * SecondMs, 15 * SecondMs, <<"C">>)>>

ScenarioNewDuration == 7 * SecondMs

InitSeconds ==
    /\ audio = NoAudio
    /\ runs = 0
    /\ writes = 0
    /\ has_timeline = TRUE
    /\ heap \in SecondsTimelines
    /\ timeline = Ids(heap)
    /\ op = "none"
    /\ call = NoCall
    /\ MergeIdle
    /\ OtherIdle

NextSeconds ==
    \/ \E del_start \in SecGrid, del_end \in SecGrid :
          del_start < del_end /\ op = "none" /\ CallDeletion(del_start, del_end)
    \/ \E target_start \in SecGrid, target_end \in SecGrid,
          new_duration \in {SecondMs, ScenarioNewDuration} :
          target_start < target_end /\ CallPatch(target_start, target_end, new_duration)

WholeSeconds == Len(timeline) = 3

InitMapping == InitTransform \/ InitSeconds

NextMapping ==
    \/ ~WholeSeconds /\ NextTransform
    \/ WholeSeconds /\ NextSeconds

SpecMapping == InitMapping /\ [][NextMapping]_vars

----------------------------------------------------------------------------
(* SpecPad: add_silence_padding called on a payload.                       *)

\* Headerless payloads: all one byte, or four zero bytes first.
RawData ==
    {<<>>}
    \cup {<<Run(1, n)>> : n \in (MIN_BYTES - 1)..(MIN_BYTES + MaxOver)}
    \cup {<<Run(0, 4), Run(1, n - 4)>> : n \in (MIN_BYTES - 1)..(MIN_BYTES + MaxOver)}

\* Sample data of a container, whole frames for every profile drawn; with the
\* 44 bytes of the head the shortest gives a payload under MIN_BYTES.
FrameData ==
    UNION {{<<Run(1, n)>>, <<Run(1, n - 8), Run(2, 8)>>, <<Run(0, 4), Run(1, n - 4)>>} :
              n \in {4 * j : j \in 13..(14 + MaxOver)}}

Profiles ==
    {Profile(c, w, r) : c \in {1, 2}, w \in {1, 2}, r \in {FRAMERATE, 22050, 8000}}

RiffHead == <<Run(RIFF, 44)>>

Payloads ==
    {NoBytes}
    \cup {[NoBytes EXCEPT !.kind = "bytes", !.frames = d] : d \in RawData}
    \cup {[kind |-> "bytes", head |-> RiffHead, frames |-> d, parse |-> "ok", profile |-> pr] :
              d \in FrameData, pr \in Profiles}
    \cup {[NoBytes EXCEPT !.kind = "bytes", !.head = RiffHead, !.frames = d, !.parse = e] :
              d \in FrameData, e \in {"wave.Error", "EOFError"}}

Durations == {0, GridStep, PATCH_SILENCE, DEFAULT_PAD}

InitPad ==
    /\ audio = NoAudio
    /\ runs = 0
    /\ writes = 0
    /\ has_timeline = FALSE
    /\ heap = <<>>
    /\ timeline = <<>>
    /\ op = "none"
    /\ call = NoCall
    /\ MergeIdle
    /\ pad \in {[called |-> FALSE, audio_bytes |-> b, duration_sec |-> d, ret |-> PadNone] :
                    b \in Payloads, d \in Durations}
    /\ splice = NoRecord
    /\ batch = NoRecord
    /\ RestIdle

CallPadding ==
    /\ ~pad.called
    /\ pad' = [pad EXCEPT !.called = TRUE,
                          !.ret = add_silence_padding_bytes(pad.audio_bytes, pad.duration_sec)]
    /\ UNCHANGED <<audio, runs, writes, has_timeline, heap, timeline, op, call,
                   mergeVars, splice, batch, folder, chunker>>

NextPad == CallPadding

SpecPad == InitPad /\ [][NextPad]_vars

----------------------------------------------------------------------------
(* SpecBatch: one batch generation run of main().  responses[i] is what    *)
(* generate_speech does for the i-th script file of the run: it raises, or *)
(* it returns None or a payload.                                           *)

Raises == [raised |-> TRUE, bytes |-> NoBytes]

Returns(b) == [raised |-> FALSE, bytes |-> b]

\* None, speech in a container, a payload under MIN_BYTES, and a payload
\* whose head wave.open cannot read.
Responses ==
    {Raises, Returns(NoBytes),
     Returns([kind |-> "bytes", head |-> RiffHead, frames |-> <<Run(1, 60)>>, parse |-> "ok",
              profile |-> Profile(CHANNELS, SAMPWIDTH, FRAMERATE)]),
     Returns([NoBytes EXCEPT !.kind = "bytes", !.frames = <<Run(1, MIN_BYTES - 1)>>]),
     Returns([NoBytes EXCEPT !.kind = "bytes", !.head = RiffHead, !.frames = <<Run(1, 60)>>,
                             !.parse = "EOFError"])}

InitBatch ==
    /\ audio = NoAudio
    /\ runs = 0
    /\ writes = 0
    /\ has_timeline = FALSE
    /\ heap = <<>>
    /\ timeline = <<>>
    /\ op = "none"
    /\ call = NoCall
    /\ MergeIdle
    /\ pad = NoRecord
    /\ splice = NoRecord
    /\ RestIdle
    /\ batch \in {[called |-> TRUE, responses |-> r, i |-> 0, generated |-> {}, saved |-> {},
                    halted |-> FALSE] :
                      r \in UNION {[1..n -> Responses] : n \in 1..MaxBatch}}

\* if audio_bytes:
TruthyBytes(b) == b.kind # "none" /\ ByteLen(AllBytes(b)) > 0

\* One pass of the loop over target_files.
BatchIteration ==
    /\ batch.called
    /\ ~batch.halted
    /\ batch.i < Len(batch.responses)
    /\ LET i == batch.i + 1
           response == batch.responses[i]
           audio_bytes == response.bytes
           final_audio == add_silence_padding_bytes(audio_bytes, DEFAULT_PAD)
           started == [batch EXCEPT !.i = i, !.generated = @ \cup {i}]
       IN  batch' =
              IF response.raised THEN [started EXCEPT !.halted = TRUE]
              ELSE IF TruthyBytes(audio_bytes)
                   THEN IF final_audio.ok
                        THEN [started EXCEPT !.saved = @ \cup {i}]
                        ELSE started
                   ELSE [started EXCEPT !.halted = TRUE]
    /\ UNCHANGED <<audio, runs, writes, has_timeline, heap, timeline, op, call,
                   mergeVars, pad, splice, folder, chunker>>

NextBatch == BatchIteration

SpecBatch == InitBatch /\ [][NextBatch]_vars

----------------------------------------------------------------------------
(* SpecSplice: patch_audio_segment called on an original and a             *)
(* replacement clip.                                                       *)

InitSplice ==
    /\ audio = NoAudio
    /\ runs = 0
    /\ writes = 0
    /\ has_timeline = FALSE
    /\ heap = <<>>
    /\ timeline = <<>>
    /\ op = "none"
    /\ call = NoCall
    /\ MergeIdle
    /\ pad = NoRecord
    /\ batch = NoRecord
    /\ RestIdle
    /\ splice \in
          {[called |-> FALSE, original |-> o, replacement |-> n, start_sec |-> s, end_sec |-> e,
            ret |-> Failed, parts |-> PatchParts(NoAudio, NoAudio, 0, 0)] :
              o \in {NoAudio, Tiny, Headerless, Corrupt}
                       \cup {Wav(d) : d \in Grid(MaxSessionK) \ {0}},
              n \in {NoAudio, Tiny, Headerless} \cup {Wav(d) : d \in Grid(MaxClipK) \ {0}},
              s \in {-GridStep} \cup Grid(MaxSessionK),
              e \in Grid(MaxSessionK + 1)}

CallPatchAudio ==
    /\ ~splice.called
    /\ splice' = [splice EXCEPT
                     !.called = TRUE,
                     !.ret = patch_audio_segment(splice.original, splice.replacement,
                                                 splice.start_sec, splice.end_sec),
                     !.parts = PatchParts(splice.original, splice.replacement,
                                          splice.start_sec, splice.end_sec)]
    /\ UNCHANGED <<audio, runs, writes, has_timeline, heap, timeline, op, call,
                   mergeVars, pad, batch, folder, chunker>>

NextSplice == CallPatchAudio

SpecSplice == InitSplice /\ [][NextSplice]_vars

----------------------------------------------------------------------------
(* main(): batch generation runs on one chapter folder, one after another *)

\* The script files script_001.txt .. script_00n.txt, sorted by name, are
\* the indices 1 .. n; an audio file audio_00j.wav is the index j.
TxtFiles(n) == [j \in 1..n |-> j]

\* start_idx = len(existing_audios)
StartIdx(existing_audios) == Cardinality(existing_audios)

\* batch_count = st.number_input(min_value=1, max_value=max(1, len(txt_files)-start_idx))
BatchCounts(txt_files, start_idx) == 1..Max(1, Len(txt_files) - start_idx)

\* target_files = txt_files[start_idx : start_idx + batch_count]
TargetFiles(txt_files, start_idx, batch_count) ==
    [i \in 1..Min(batch_count, Max(0, Len(txt_files) - start_idx)) |-> txt_files[start_idx + i]]

\* A chapter whose scripts were written and whose audio folder is empty.
InitResume ==
    /\ audio = NoAudio
    /\ runs = 0
    /\ writes = 0
    /\ has_timeline = FALSE
    /\ heap = <<>>
    /\ timeline = <<>>
    /\ op = "none"
    /\ call = NoCall
    /\ MergeIdle
    /\ pad = NoRecord
    /\ splice = NoRecord
    /\ batch = NoRecord
    /\ chunker = NoRecord
    /\ folder \in {[called |-> TRUE, txt_files |-> TxtFiles(n), wavs |-> {}, started |-> 0,
                     existing_audios |-> {}, start_idx |-> 0, target_files |-> <<>>,
                     i |-> 0, running |-> FALSE] : n \in 1..MaxScripts}

\* The page is drawn and the button is pressed: the folders are listed, the
\* resume index is computed and the files of this run are chosen.
StartRun(batch_count) ==
    /\ folder.called
    /\ ~folder.running
    /\ folder.started < MaxResume
    /\ LET existing_audios == folder.wavs
           start_idx == StartIdx(existing_audios)
           target_files == TargetFiles(folder.txt_files, start_idx, batch_count)
       IN  /\ batch_count \in BatchCounts(folder.txt_files, start_idx)
           /\ folder' = [folder EXCEPT !.started = @ + 1,
                                        !.existing_audios = existing_audios,
                                        !.start_idx = start_idx,
                                        !.target_files = target_files,
                                        !.i = 0,
                                        !.running = target_files # <<>>]
    /\ UNCHANGED <<audio, runs, writes, has_timeline, heap, timeline, op, call,
                   mergeVars, pad, splice, batch, chunker>>

\* One pass of the loop over target_files, with the file it saves.
ResumeIteration(response) ==
    /\ folder.called
    /\ folder.running
    /\ folder.i < Len(folder.target_files)
    /\ LET i == folder.i + 1
           txt_file == folder.target_files[i]
           audio_bytes == response.bytes
           final_audio == add_silence_padding_bytes(audio_bytes, DEFAULT_PAD)
           last == i = Len(folder.target_files)
           next == [folder EXCEPT !.i = i, !.running = ~last]
       IN  folder' =
              IF response.raised THEN [next EXCEPT !.running = FALSE]
              ELSE IF TruthyBytes(audio_bytes)
                   THEN IF final_audio.ok
                        THEN [next EXCEPT !.wavs = @ \cup {txt_file}]
                        ELSE next
                   ELSE [next EXCEPT !.running = FALSE]
    /\ UNCHANGED <<audio, runs, writes, has_timeline, heap, timeline, op, call,
                   mergeVars, pad, splice, batch, chunker>>

NextResume ==
    \/ \E batch_count \in 1..MaxScripts : StartRun(batch_count)
    \/ \E response \in Responses : ResumeIteration(response)

SpecResume == InitResume /\ [][NextResume]_vars

----------------------------------------------------------------------------
(* process_text_for_playground *)

\* text.replace("...", ","): the occurrences from left to right, none
\* overlapping another.
RECURSIVE ReplaceEllipsis(_)
ReplaceEllipsis(t) ==
    IF Len(t) < 3 THEN t
    ELSE IF SubSeq(t, 1, 3) = <<".", ".", ".">>
         THEN <<",">> \o ReplaceEllipsis(SubSeq(t, 4, Len(t)))
         ELSE <<Head(t)>> \o ReplaceEllipsis(Tail(t))

\* re.sub(r'\s+', ' ', text): every run of whitespace becomes one space.
RECURSIVE CollapseSpaces(_)
CollapseSpaces(t) ==
    IF t = <<>> THEN t
    ELSE IF Head(t) = " " /\ Len(t) > 1 /\ t[2] = " " THEN CollapseSpaces(Tail(t))
    ELSE <<Head(t)>> \o CollapseSpaces(Tail(t))

\* Steps 1 and 2 of the function on texts without brackets, line breaks
\* and * # @: the ellipsis becomes a comma, whitespace is collapsed and
\* the ends are stripped.
CleanText(text) == Strip(CollapseSpaces(ReplaceEllipsis(text)))

\* re.split(r'(?<=[.?!])\s+', text): the text is cut at every run of
\* whitespace that follows a terminator, and the run is dropped.
RECURSIVE SplitSentences(_, _)
SplitSentences(t, current) ==
    IF t = <<>> THEN <<current>>
    ELSE IF Head(t) = " " /\ current # <<>> /\ current[Len(current)] \in Terminators
         THEN <<current>> \o SplitSentences(LStrip(t), <<>>)
         ELSE SplitSentences(Tail(t), Append(current, Head(t)))

\* if len(current_chunk) + len(sentence) > max_chars
ChunkFull(current_chunk, sentence, max_chars) ==
    Len(current_chunk) + Len(sentence) > max_chars

\* The loop over the sentences, from sentence i on, and the final append.
RECURSIVE ChunkLoop(_, _, _, _, _)
ChunkLoop(sentences, i, chunks, current_chunk, max_chars) ==
    IF i > Len(sentences)
    THEN IF current_chunk # <<>> THEN Append(chunks, Strip(current_chunk)) ELSE chunks
    ELSE LET sentence == sentences[i] IN
         IF sentence = <<>> THEN ChunkLoop(sentences, i + 1, chunks, current_chunk, max_chars)
         ELSE IF ChunkFull(current_chunk, sentence, max_chars)
              THEN ChunkLoop(sentences, i + 1,
                             IF current_chunk # <<>> THEN Append(chunks, Strip(current_chunk))
                             ELSE chunks,
                             sentence, max_chars)
              ELSE ChunkLoop(sentences, i + 1, chunks,
                             IF current_chunk # <<>> THEN current_chunk \o <<" ">> \o sentence
                             ELSE sentence,
                             max_chars)

process_text_for_playground(text, max_chars) ==
    ChunkLoop(SplitSentences(CleanText(text), <<>>), 1, <<>>, <<>>, max_chars)

\* The characters the texts are drawn from.
TextChars == {"a", ".", " "}

Texts == UNION {[1..n -> TextChars] : n \in 0..MaxTextLen}

InitChunker ==
    /\ audio = NoAudio
    /\ runs = 0
    /\ writes = 0
    /\ has_timeline = FALSE
    /\ heap = <<>>
    /\ timeline = <<>>
    /\ op = "none"
    /\ call = NoCall
    /\ MergeIdle
    /\ pad = NoRecord
    /\ splice = NoRecord
    /\ batch = NoRecord
    /\ folder = NoRecord
    /\ chunker \in {[called |-> FALSE, text |-> t, max_chars |-> m, ret |-> <<>>] :
                      t \in Texts, m \in MinChars..MaxChars}

CallChunker ==
    /\ ~chunker.called
    /\ chunker' = [chunker EXCEPT !.called = TRUE,
                                   !.ret = process_text_for_playground(chunker.text,
                                                                       chunker.max_chars)]
    /\ UNCHANGED <<audio, runs, writes, has_timeline, heap, timeline, op, call,
                   mergeVars, pad, splice, batch, folder>>

NextChunker == CallChunker

SpecChunker == InitChunker /\ [][NextChunker]_vars

----------------------------------------------------------------------------
(* Claims on the deletion transform *)

Now == Deref(heap, timeline)

NoNegativeNoInverted(v) ==
    \A i \in DOMAIN v : 0 <= v[i].start /\ v[i].start <= v[i].end

\* C1: after a deletion transform with 0 <= del_start < del_end on a timeline
\* whose segments all have 0 <= start <= end, every segment of the result has
\* start >= 0 and start <= end; the result meets the precondition again, so
\* this holds after any sequence of such deletions.
C1_DeletionKeepsNonNegativeNonInverted ==
    (/\ op = "adjust_deletion"
     /\ 0 <= call.a /\ call.a < call.b
     /\ NoNegativeNoInverted(call.old))
        => NoNegativeNoInverted(Deref(heap, call.ret))

\* A straddling segment whose shifted end would fall before its start was
\* floored at its start, and a segment after the cut was shifted to 0.
C1_Witness ==
    /\ op = "adjust_deletion"
    /\ 0 <= call.a /\ call.a < call.b
    /\ NoNegativeNoInverted(call.old)
    /\ \E i \in DOMAIN call.old :
          /\ call.old[i].end > call.a
          /\ call.old[i].start < call.b - EPS_DEL
          /\ call.old[i].end - (call.b - call.a) < call.old[i].start
          /\ Now[i].end = Now[i].start
    /\ \E i \in DOMAIN call.old :
          call.old[i].start >= call.b - EPS_DEL /\ Now[i].start = 0


\* C2: the deletion transform keeps the ordering of a timeline: if each
\* segment of the input ends no later than the next one starts, so does each
\* segment of the output, for every deletion with 0 <= del_start < del_end.
C2_DeletionKeepsOrder ==
    (/\ op = "adjust_deletion"
     /\ 0 <= call.a /\ call.a < call.b
     /\ Ordered(call.old))
        => Ordered(Deref(heap, call.ret))

\* C5: both transforms are pure: after the call the list passed in still
\* holds segments with the values they had on entry, and the returned list
\* shares no segment object with it.
C5_TransformsArePure ==
    op \in {"adjust_deletion", "adjust_patch"}
        => /\ Deref(heap, call.arg) = call.old
           /\ Range(call.ret) \cap Range(call.arg) = {}

----------------------------------------------------------------------------
(* Claims on the edit handlers *)

LastEnd(v) == v[Len(v)].end

\* C3: after a committed deletion edit that started from a timeline whose
\* last segment ended no later than the audio, the last segment of the new
\* timeline ends no later than the new audio.
C3_LastSegmentWithinAudio ==
    (/\ op = "delete_ok"
     /\ call.transformed
     /\ call.old # <<>>
     /\ LastEnd(call.old) <= call.audio.dur)
        => LastEnd(Now) <= audio.dur

SessionUnchanged ==
    /\ audio = call.audio
    /\ writes = call.writes
    /\ timeline = call.arg
    /\ Now = call.old

\* C4: in both edit handlers a splice function that returned None is never
\* followed by a timeline transform, and the audio file and the timeline are
\* then as they were before the handler ran.
C4_FailedSpliceChangesNothing ==
    /\ (/\ op \in {"delete_ok", "delete_failed"}
        /\ ~delete_audio_range(call.audio, call.a, call.b).ok)
           => ~call.transformed /\ SessionUnchanged
    /\ (/\ op \in {"patch_ok", "patch_failed"}
        /\ ~patch_audio_segment(call.audio, Wav(call.c), call.a, call.b).ok)
           => ~call.transformed /\ SessionUnchanged

\* A deletion of a valid range failed on a session that holds a timeline.
C4_Witness ==
    /\ op = "delete_failed"
    /\ call.a < call.b
    /\ call.audio.kind = "wav"
    /\ has_timeline
    /\ Len(timeline) = 2

\* C6: a deletion edit with the empty range [x, x], x >= 0, is a no-op: the
\* deletion handler leaves the audio file and the timeline as they were, and
\* adjust_timeline_for_deletion(timeline, x, x) returns segments with the
\* start, end and text they had (timelines with times >= 0).
C6_EmptyRangeIsNoOp ==
    /\ (/\ op \in {"delete_nofile", "delete_ok", "delete_failed"}
        /\ call.a = call.b)
           => ~call.transformed /\ SessionUnchanged
    /\ (/\ op = "adjust_deletion"
        /\ call.a = call.b)
           => Deref(heap, call.ret) = call.old

\* The handler ran with the empty range [x, x], x > 0, inside the audio of a
\* session that holds a timeline with a segment across x.
C6_Witness ==
    /\ op = "delete_failed"
    /\ call.a = call.b
    /\ CROSSFADE <= call.a /\ call.a + CROSSFADE <= call.audio.dur
    /\ call.audio.kind = "wav"
    /\ has_timeline
    /\ \E i \in DOMAIN Now : Now[i].start < call.a /\ call.a < Now[i].end

----------------------------------------------------------------------------
(* Claims on the sentence merger *)

\* C7: whatever the raw fragments and the duration, the merger emits no
\* segment with start >= end and none whose end exceeds the duration.
C7_MergedSegmentsValid ==
    op = "merged"
        => \A i \in DOMAIN merged_data :
              /\ merged_data[i].start < merged_data[i].end
              /\ merged_data[i].end <= real_duration

\* C8: whatever the raw fragments, each emitted segment ends no later than
\* the next one starts.
C8_MergedMonotonic ==
    op = "merged" => Ordered(merged_data)

\* A fragment the merger keeps, and one whose text closes a sentence.
ValidFragment(f) == f.start < f.end /\ f.start < real_duration

EndsSentence(t) == Strip(t) # <<>> /\ Strip(t)[Len(Strip(t))] \in Terminators

\* The texts of a list, each without its leading and trailing whitespace,
\* with a single space between one text and the next.
RECURSIVE SingleSpaced(_)
SingleSpaced(texts) ==
    IF texts = <<>> THEN <<>>
    ELSE LET rest == SingleSpaced(Tail(texts))
             t == Strip(Head(texts))
         IN  IF t = <<>> THEN rest
             ELSE IF rest = <<>> THEN t
             ELSE t \o <<" ">> \o rest

TextsOf(list) == [i \in DOMAIN list |-> list[i].text]

\* C9: for valid raw fragments (start < end, start < duration) of which the
\* last closes a sentence, the output texts in order hold the input texts in
\* order, nothing lost and nothing twice, with single spaces between them
\* (texts compared without the whitespace around a fragment, which the
\* merger strips where it joins).
C9_MergerKeepsText ==
    (/\ op = "merged"
     /\ raw_data # <<>>
     /\ \A i \in DOMAIN raw_data : ValidFragment(raw_data[i])
     /\ EndsSentence(raw_data[Len(raw_data)].text))
        => SingleSpaced(TextsOf(merged_data)) = SingleSpaced(TextsOf(raw_data))

\* Three valid fragments, one of them padded, were merged into two segments.
C9_Witness ==
    /\ op = "merged"
    /\ Len(raw_data) = 3
    /\ \A i \in DOMAIN raw_data : ValidFragment(raw_data[i])
    /\ EndsSentence(raw_data[3].text)
    /\ \E i \in DOMAIN raw_data : Strip(raw_data[i].text) # raw_data[i].text
    /\ Len(merged_data) = 2

\* The valid fragments in input order, and the runs they fall into: a run
\* ends with a fragment that closes a sentence, or with the last fragment.
Kept == SelectSeq(raw_data, ValidFragment)

RunEnds == {i \in 1..Len(Kept) : EndsSentence(Kept[i].text) \/ i = Len(Kept)}

RunEnd(k) == CHOOSE i \in RunEnds : Cardinality({j \in RunEnds : j <= i}) = k

RunStart(k) == IF k = 1 THEN 1 ELSE RunEnd(k - 1) + 1

\* The scenario of the specification on the grid: "a" for "Hello" and "b."
\* for "world.", the second fragment ending before the duration.
ScenarioFragments ==
    <<Seg(0, GridStep, <<"a">>), Seg(GridStep, 2 * GridStep, <<"b", ".">>)>>

ScenarioDuration == 3 * GridStep

\* C10: each emitted segment is built from a maximal run of consecutive
\* valid fragments: it starts where the first fragment of the run starts,
\* ends where the last one ends (clamped to the duration), and its text is
\* the fragments' texts joined with a single space; the two fragments of the
\* scenario give one segment over both with the text "a b.".
C10_SegmentsAreRuns ==
    op = "merged"
        => /\ Len(merged_data) = Cardinality(RunEnds)
           /\ \A k \in DOMAIN merged_data :
                 /\ merged_data[k].start = Kept[RunStart(k)].start
                 /\ merged_data[k].end = Min(Kept[RunEnd(k)].end, real_duration)
                 /\ Strip(merged_data[k].text) =
                       SingleSpaced(TextsOf(SubSeq(Kept, RunStart(k), RunEnd(k))))
           /\ (raw_data = ScenarioFragments /\ real_duration = ScenarioDuration)
                 => merged_data = <<Seg(0, 2 * GridStep, <<"a", " ", "b", ".">>)>>

\* The scenario has been merged.
C10_Witness ==
    /\ op = "merged"
    /\ raw_data = ScenarioFragments
    /\ real_duration = ScenarioDuration
    /\ Len(merged_data) = 1

\* The valid fragments after the last one that closes a sentence.
Trailing ==
    LET closing == {i \in 1..Len(Kept) : EndsSentence(Kept[i].text)}
        from == IF closing = {} THEN 1
                ELSE (CHOOSE i \in closing : \A j \in closing : j <= i) + 1
    IN  SubSeq(Kept, from, Len(Kept))

\* C11: the output is sentence-bounded and drops no trailing content: every
\* emitted segment except possibly the last ends with '.', '?' or '!', and
\* valid fragments still in the accumulator when the input is exhausted are
\* emitted as the final segment.
C11_SentenceBoundedNoTailDropped ==
    op = "merged"
        => /\ \A i \in 1..(Len(merged_data) - 1) : EndsSentence(merged_data[i].text)
           /\ Trailing # <<>>
                 => /\ merged_data # <<>>
                    /\ LET last == merged_data[Len(merged_data)] IN
                       /\ ~EndsSentence(last.text)
                       /\ last.start = Trailing[1].start
                       /\ last.end = Min(Trailing[Len(Trailing)].end, real_duration)
                       /\ Strip(last.text) = SingleSpaced(TextsOf(Trailing))

\* A closed sentence was followed by two valid fragments without a
\* terminator, which came out as the final segment.
C11_Witness ==
    /\ op = "merged"
    /\ Len(raw_data) = 3
    /\ \A i \in DOMAIN raw_data : ValidFragment(raw_data[i])
    /\ Len(Trailing) = 2
    /\ Len(merged_data) = 2
    /\ ~EndsSentence(merged_data[2].text)

----------------------------------------------------------------------------
(* Claims on the segment mappings of the two transforms *)

\* C12: for gap = del_end - del_start > 0 the deletion transform returns the
\* segments in their order, each mapped by its case: end <= del_start leaves
\* it as it is; otherwise start >= del_end - 0.05 gives max(0, start - gap)
\* and max(0, end - gap); otherwise the start stays and the end becomes
\* max(start, end - gap).  [{0,5,A},{5,10,B},{10,15,C}] with the deletion
\* (6, 8) gives [{0,5,A},{5,8,B},{8,13,C}].
C12_DeletionMapping ==
    (op = "adjust_deletion" /\ call.a < call.b)
        => LET gap == call.b - call.a
               new == Deref(heap, call.ret)
           IN  /\ Len(new) = Len(call.old)
               /\ \A i \in DOMAIN call.old :
                     LET o == call.old[i]
                         n == new[i]
                     IN  /\ n.text = o.text
                         /\ IF o.end <= call.a THEN n = o
                            ELSE IF o.start >= call.b - EPS_DEL
                            THEN /\ n.start = Max(0, o.start - gap)
                                 /\ n.end = Max(0, o.end - gap)
                            ELSE /\ n.start = o.start
                                 /\ n.end = Max(o.start, o.end - gap)
               /\ (/\ call.old = ScenarioTimeline
                   /\ call.a = 6 * SecondMs
                   /\ call.b = 8 * SecondMs)
                      => new = <<Seg(0, 5 * SecondMs, <<"A">>),
                                 Seg(5 * SecondMs, 8 * SecondMs, <<"B">>),
                                 Seg(8 * SecondMs, 13 * SecondMs, <<"C">>)>>

\* The deletion (6, 8) ran on the timeline of the scenario.
C12_Witness ==
    /\ op = "adjust_deletion"
    /\ call.old = ScenarioTimeline
    /\ call.a = 6 * SecondMs
    /\ call.b = 8 * SecondMs
    /\ Now[2].end = 8 * SecondMs
    /\ Now[3].start = 8 * SecondMs

\* C13: for diff = new_duration - (target_end - target_start) the patch
\* transform returns the segments in their order, each mapped by its case:
\* start >= target_end - 0.1 shifts start and end by diff; otherwise
\* end > target_start and start < target_end changes the end only, to
\* end + diff; every other segment stays as it is.
\* [{0,5,A},{5,10,B},{10,15,C}] with the patch (5, 10, new duration 7) gives
\* [{0,5,A},{5,12,B},{12,17,C}].
C13_PatchMapping ==
    op = "adjust_patch"
        => LET diff == call.c - (call.b - call.a)
               new == Deref(heap, call.ret)
           IN  /\ Len(new) = Len(call.old)
               /\ \A i \in DOMAIN call.old :
                     LET o == call.old[i]
                         n == new[i]
                     IN  /\ n.text = o.text
                         /\ IF o.start >= call.b - EPS_PATCH
                            THEN n.start = o.start + diff /\ n.end = o.end + diff
                            ELSE IF o.end > call.a /\ o.start < call.b
                            THEN n.start = o.start /\ n.end = o.end + diff
                            ELSE n = o
               /\ (/\ call.old = ScenarioTimeline
                   /\ call.a = 5 * SecondMs
                   /\ call.b = 10 * SecondMs
                   /\ call.c = ScenarioNewDuration)
                      => new = <<Seg(0, 5 * SecondMs, <<"A">>),
                                 Seg(5 * SecondMs, 12 * SecondMs, <<"B">>),
                                 Seg(12 * SecondMs, 17 * SecondMs, <<"C">>)>>

\* The patch (5, 10, 7) ran on the timeline of the scenario.
C13_Witness ==
    /\ op = "adjust_patch"
    /\ call.old = ScenarioTimeline
    /\ call.a = 5 * SecondMs
    /\ call.b = 10 * SecondMs
    /\ call.c = ScenarioNewDuration
    /\ Now[2].end = 12 * SecondMs
    /\ Now[3].start = 12 * SecondMs

----------------------------------------------------------------------------
(* Claims on the splice functions *)

\* C14: a patch edit whose target range is invalid (start >= end, also after
\* the clamping to 0 and to the duration of the original) applies no edit:
\* the audio file and the timeline are as they were before the handler ran.
C14_InvalidPatchRangeChangesNothing ==
    (/\ op \in {"patch_ok", "patch_failed"}
     /\ InvalidRange(Max(0, call.a), Min(call.b, call.audio.dur)))
        => ~call.transformed /\ SessionUnchanged

\* C15: on a readable container delete_audio_range clamps the range to the
\* audio and fails if and only if the clamped range has start >= end; every
\* clamped range with start < end, one that begins at the start of the
\* audio or reaches its end included, is deleted.
C15_DeletionFailsOnlyOnEmptyRange ==
    (/\ op \in {"delete_ok", "delete_failed"}
     /\ call.audio.kind = "wav")
        => (op = "delete_failed"
               <=> InvalidRange(Max(0, call.a), Min(call.b, call.audio.dur)))

----------------------------------------------------------------------------
(* Claims on batch generation *)

\* C16: a batch run halts at the first script file for which no audio file
\* gets written: generate_speech is called for a file of the run only if
\* an audio file was written for every file before it.
C16_BatchHaltsAtFirstFailure ==
    batch.called
        => \A j \in batch.generated : \A k \in 1..(j - 1) : k \in batch.saved

----------------------------------------------------------------------------
(* Claims on add_silence_padding *)

\* C17: a payload of at least 100 bytes is never dropped: without the RIFF
\* signature, or with it and a head the parser fails on (whatever the
\* failure), the whole payload is taken as raw mono / 16-bit / 24000 Hz
\* samples and a container is returned.
C17_LargePayloadNeverDropped ==
    (/\ pad.called
     /\ pad.audio_bytes.kind = "bytes"
     /\ ByteLen(AllBytes(pad.audio_bytes)) >= MIN_BYTES
     /\ ~(StartsWithRIFF(pad.audio_bytes) /\ pad.audio_bytes.parse = "ok"))
        => /\ pad.ret.ok
           /\ pad.ret.profile = Profile(CHANNELS, SAMPWIDTH, FRAMERATE)
           /\ pad.ret.data =
                 Cat(Zeros(((FRAMERATE * pad.duration_sec) \div SecondMs) * CHANNELS * SAMPWIDTH),
                     AllBytes(pad.audio_bytes))

\* C18: an absent payload and a payload of fewer than 100 bytes give the
\* failure value, whatever the leading bytes and the silence duration.
C18_SmallPayloadFails ==
    (/\ pad.called
     /\ \/ pad.audio_bytes.kind = "none"
        \/ ByteLen(AllBytes(pad.audio_bytes)) < MIN_BYTES)
        => pad.ret = PadNone

\* A payload of 96 bytes that starts with RIFF and has a readable head was
\* refused, with a silence duration other than 0.
C18_Witness ==
    /\ pad.called
    /\ StartsWithRIFF(pad.audio_bytes)
    /\ pad.audio_bytes.parse = "ok"
    /\ ByteLen(AllBytes(pad.audio_bytes)) = MIN_BYTES - 4
    /\ pad.duration_sec > 0
    /\ pad.ret = PadNone

----------------------------------------------------------------------------
(* Claims on patch_audio_segment *)

\* C20: for a readable original and replacement and a range with
\* start < end after the clamping, the output lasts as long as the part
\* before the range, the replacement and the part after the range together,
\* on the direct path and on the fade path; and a replacement shorter than
\* 100 ms (twice the fade window) has no fade applied to any of the parts.
C20_PatchedDurationIsSumOfParts ==
    (/\ splice.called
     /\ splice.original.kind = "wav"
     /\ splice.replacement.kind = "wav"
     /\ Max(0, splice.start_sec) < Min(splice.end_sec, splice.original.dur))
        => /\ splice.ret.ok
           /\ splice.ret.audio.dur =
                 splice.parts.part_a + splice.parts.replacement + splice.parts.part_c
           /\ splice.replacement.dur < 2 * FADE => ~splice.parts.faded

\* C21: patch_audio_segment returns None and produces no audio whenever the
\* original or the replacement is absent, shorter than 100 bytes, or does
\* not begin with the RIFF signature.
C21_PatchRejectsBadBuffers ==
    (/\ splice.called
     /\ \/ splice.original.kind \in {"none", "tiny", "raw"}
        \/ splice.replacement.kind \in {"none", "tiny", "raw"})
        => splice.ret = Failed

\* A readable original was to be patched over a valid range with a
\* replacement of 100 bytes or more that has no RIFF signature.
C21_Witness ==
    /\ splice.called
    /\ splice.original.kind = "wav"
    /\ splice.replacement = Headerless
    /\ 0 < splice.start_sec
    /\ splice.start_sec < splice.end_sec
    /\ splice.end_sec < splice.original.dur
    /\ splice.ret = Failed

----------------------------------------------------------------------------
(* Further claims on the two transforms and on the deletion edit *)

StrictlyPositiveLength(v) == \A i \in DOMAIN v : v[i].start < v[i].end

\* C22: a deletion edit keeps end strictly greater than start: from a
\* timeline whose segments all have start < end, no deletion with
\* 0 <= del_start < del_end gives a segment with start >= end.
C22_DeletionKeepsPositiveLength ==
    (/\ op = "adjust_deletion"
     /\ 0 <= call.a /\ call.a < call.b
     /\ StrictlyPositiveLength(call.old))
        => StrictlyPositiveLength(Deref(heap, call.ret))

\* The segments of the timeline passed to the patch transform that overlap
\* the patched span.
Overlapping == {i \in DOMAIN call.old : call.old[i].end > call.a /\ call.old[i].start < call.b}

\* The patched span overlaps two or more segments, all of which start
\* before target_end - 0.1.
MultiOverlap ==
    /\ op = "adjust_patch"
    /\ Cardinality(Overlapping) >= 2
    /\ \A i \in Overlapping : call.old[i].start < call.b - EPS_PATCH

\* C23 as stated: when the patched span overlaps two or more segments that
\* all start before target_end - 0.1, only the first of them has its end
\* extended by diff; the other overlapping segments keep start and end.
C23_OnlyFirstOverlapExtended ==
    MultiOverlap
        => LET diff == call.c - (call.b - call.a)
               first == CHOOSE i \in Overlapping : \A j \in Overlapping : i <= j
           IN  \A i \in Overlapping :
                  /\ Now[i].start = call.old[i].start
                  /\ Now[i].end = IF i = first THEN call.old[i].end + diff
                                  ELSE call.old[i].end

\* C23, amended: when the patched span overlaps two or more segments that
\* all start before target_end - 0.1, every one of them has its end
\* extended by diff and keeps its start.
C23_EveryOverlapExtended ==
    MultiOverlap
        => LET diff == call.c - (call.b - call.a) IN
           \A i \in Overlapping :
              /\ Now[i].start = call.old[i].start
              /\ Now[i].end = call.old[i].end + diff

\* A patch that changes the length of its span ran over two segments that
\* follow one another, with a third segment behind the span.
C23_Witness ==
    /\ MultiOverlap
    /\ call.c # call.b - call.a
    /\ Len(call.old) = 3
    /\ Overlapping = {1, 2}
    /\ call.old[1].end = call.old[2].start
    /\ Now[2].end # call.old[2].end

\* The Timeline invariant without the bound by the audio's duration: every
\* segment has 0 <= start < end and ends no later than the next begins.
TimelineInvariant(v) ==
    /\ \A i \in DOMAIN v : 0 <= v[i].start /\ v[i].start < v[i].end
    /\ Ordered(v)

\* C24: the patch transform returns a well-formed timeline: from a timeline
\* satisfying the Timeline invariant, a patch with 0 <= target_start <
\* target_end and new_duration > 0 gives segments with 0 <= start <= end,
\* each ending no later than the next begins.
C24_PatchKeepsTimelineWellFormed ==
    (/\ op = "adjust_patch"
     /\ TimelineInvariant(call.old)
     /\ 0 <= call.a /\ call.a < call.b /\ call.c > 0)
        => LET v == Deref(heap, call.ret) IN
           /\ \A i \in DOMAIN v : 0 <= v[i].start /\ v[i].start <= v[i].end
           /\ Ordered(v)

\* C25: in a committed deletion edit the gap by which the timeline is
\* shifted (del_end - del_start) equals the length actually removed from
\* the audio (the duration before the edit minus the duration after it).
C25_GapEqualsRemovedLength ==
    (/\ op = "delete_ok"
     /\ call.transformed)
        => call.b - call.a = call.audio.dur - audio.dur

\* The number of leading script files that have an audio file of the same
\* index.
Leading(txt_files, wavs) ==
    Cardinality({k \in DOMAIN txt_files : \A j \in 1..k : txt_files[j] \in wavs})

\* C26: at the start of every batch run the resume index equals the number
\* of leading scripts that already have their audio file, and the run takes
\* no script whose audio file exists.
C26_ResumeIndexIsLeadingCount ==
    (folder.called /\ folder.started > 0)
        => /\ folder.start_idx = Leading(folder.txt_files, folder.existing_audios)
           /\ \A k \in DOMAIN folder.target_files :
                 folder.target_files[k] \notin folder.existing_audios

\* The sentences of the text the chunks are formed from.
Sentences == SplitSentences(CleanText(chunker.text), <<>>)

\* sep.join(parts)
RECURSIVE Join(_, _)
Join(parts, sep) ==
    IF parts = <<>> THEN <<>>
    ELSE IF Len(parts) = 1 THEN parts[1]
    ELSE parts[1] \o sep \o Join(Tail(parts), sep)

\* C27: process_text_for_playground returns no chunk longer than max_chars
\* except a chunk that is one sentence longer than max_chars, and the chunks
\* are the whole sentences in their order.
C27_ChunksWithinLimit ==
    chunker.called
        => /\ \A k \in DOMAIN chunker.ret :
                 \/ Len(chunker.ret[k]) <= chunker.max_chars
                 \/ \E i \in DOMAIN Sentences : chunker.ret[k] = Sentences[i]
           /\ Join(chunker.ret, <<" ">>) = Join(Sentences, <<" ">>)

\* C28: the deletion transform never drops, reorders or rewrites segments:
\* the list it returns holds the segments it was given, as many, in the same
\* order and with the same text, also those inside the deleted range.
C28_DeletionKeepsSegmentsAndText ==
    op = "adjust_deletion"
        => /\ call.ret = call.arg
           /\ Len(Deref(heap, call.ret)) = Len(call.old)
           /\ \A i \in DOMAIN call.old : Deref(heap, call.ret)[i].text = call.old[i].text

\* A deletion ran on a timeline of three segments whose second segment
\* lies entirely inside the deleted range.
C28_Witness ==
    /\ op = "adjust_deletion"
    /\ Len(call.old) = 3
    /\ call.a < call.b
    /\ call.old[1].end <= call.a
    /\ call.a <= call.old[2].start /\ call.old[2].start < call.old[2].end
    /\ call.old[2].end <= call.b
    /\ call.b <= call.old[3].start
    /\ Len(call.ret) = 3

====
